---------------------------- MODULE Spec2Model ----------------------------
(***************************************************************************)
(* A model of tupas/b02k.py: validation of Tupas (B02K) bank callback      *)
(* URLs.                                                                   *)
(*                                                                         *)
(* A Python str is a sequence of one-character strings.  The text of a     *)
(* URL is a sequence of tokens: characters, the percent escapes "%20",     *)
(* "%26" and "%3D" (each one token), the field names of the protocol       *)
(* (each one token) and the two-digit groups of a hexadecimal digest.      *)
(*                                                                         *)
(* SHA-256 is idealised as a collision-free digest: hexdigest renders the  *)
(* bytes of its input in hexadecimal, which is injective.                  *)
(***************************************************************************)
EXTENDS Integers, Sequences, FiniteSets, TLC

VARIABLES op, url, query, info, inputsecret, outputsecret, error_url, result

vars == <<op, url, query, info, inputsecret, outputsecret, error_url, result>>

(***************************************************************************)
(* Outcomes of a call: a returned value or a raised exception.             *)
(***************************************************************************)
Return(v) == [kind |-> "return", exc |-> "", val |-> v]

Raise(e) == [kind |-> "raise", exc |-> e, val |-> <<>>]

NoResult == [kind |-> "none", exc |-> "", val |-> <<>>]

(***************************************************************************)
(* str methods                                                             *)
(***************************************************************************)
IndexOf(s, c) ==
    IF \E i \in 1..Len(s) : s[i] = c
    THEN CHOOSE i \in 1..Len(s) : s[i] = c /\ \A j \in 1..(i - 1) : s[j] # c
    ELSE 0

RECURSIVE Split(_, _)
\* str.split(sep)
Split(s, sep) ==
    LET i == IndexOf(s, sep)
    IN  IF i = 0 THEN <<s>>
        ELSE <<SubSeq(s, 1, i - 1)>> \o Split(SubSeq(s, i + 1, Len(s)), sep)

\* str.split(sep, 1)
SplitOnce(s, sep) ==
    LET i == IndexOf(s, sep)
    IN  IF i = 0 THEN <<s>>
        ELSE <<SubSeq(s, 1, i - 1), SubSeq(s, i + 1, Len(s))>>

RECURSIVE Join(_, _)
\* sep.join(parts)
Join(parts, sep) ==
    IF Len(parts) = 0 THEN <<>>
    ELSE IF Len(parts) = 1 THEN parts[1]
    ELSE parts[1] \o <<sep>> \o Join(Tail(parts), sep)

IsCased(c) == c \in {"a", "b", "j", "k", "A", "B", "J", "K"}

Upper(c) ==
    CASE c = "a" -> "A" [] c = "b" -> "B" [] c = "j" -> "J" [] c = "k" -> "K"
      [] OTHER -> c

Lower(c) ==
    CASE c = "A" -> "a" [] c = "B" -> "b" [] c = "J" -> "j" [] c = "K" -> "k"
      [] OTHER -> c

\* str.title(): a cased character is upper-cased at the start of a word and
\* lower-cased after another cased character.
Title(s) ==
    [i \in 1..Len(s) |->
        IF i > 1 /\ IsCased(s[i - 1]) THEN Lower(s[i]) ELSE Upper(s[i])]

(***************************************************************************)
(* hashlib.sha256(raw.encode()).hexdigest(), idealised: the hexadecimal    *)
(* rendering of the bytes of raw, one token for each token of raw.         *)
(***************************************************************************)
HexOf(c) ==
    CASE c = "a" -> "61" [] c = "b" -> "62" [] c = "A" -> "41" [] c = "B" -> "42"
      [] c = "j" -> "6a" [] c = "k" -> "6b" [] c = "J" -> "4a" [] c = "K" -> "4b"
      [] c = " " -> "20" [] c = "&" -> "26" [] c = "=" -> "3d" [] c = "#" -> "23"
      [] c = "firstname" -> "66697273746e616d65"
      [] c = "lastname" -> "6c6173746e616d65"
      [] c = "0003" -> "30303033"
      [] c = "0001" -> "30303031"
      [] c = "03" -> "3033"
      [] c = "02" -> "3032"
      [] c = "9984" -> "39393834"
      [] c = "2512408990" -> "32353132343038393930"
      [] c = "50020181017141433899056"
           -> "3530303230313831303137313431343333383939303536"
      [] c = "20010125140015123456" -> "3230303130313235313430303135313233343536"

hexdigest(raw) == [i \in 1..Len(raw) |-> HexOf(raw[i])]

\* str.upper() on a hexadecimal rendering
HexUpper(h) ==
    CASE h = "6a" -> "6A" [] h = "6b" -> "6B" [] h = "4a" -> "4A" [] h = "4b" -> "4B"
      [] h = "3d" -> "3D"
      [] h = "66697273746e616d65" -> "66697273746E616D65"
      [] h = "6c6173746e616d65" -> "6C6173746E616D65"
      [] OTHER -> h

upper(s) == [i \in 1..Len(s) |-> HexUpper(s[i])]

(***************************************************************************)
(* b02k.py                                                                 *)
(***************************************************************************)
B02K_MAC == <<"B02K_MAC">>

B02K_KEYS ==
    << <<"B02K_VERS">>, <<"B02K_TIMESTMP">>, <<"B02K_IDNBR">>, <<"B02K_STAMP">>,
       <<"B02K_CUSTNAME">>, <<"B02K_KEYVERS">>, <<"B02K_ALG">>, <<"B02K_CUSTID">>,
       <<"B02K_CUSTTYPE">> >>

B02KInfo == {B02K_KEYS[i] : i \in 1..Len(B02K_KEYS)}

\* declare_info without the filter on B02K_KEYS: B02KInfo(**info)
declare_info_unfiltered(d) ==
    IF DOMAIN d = B02KInfo THEN Return(d) ELSE Raise("TypeError")

\* B02KInfo(**params) raises TypeError unless params names exactly the nine
\* attributes.
declare_info(d) ==
    LET keep == {k \in DOMAIN d : k \in B02KInfo}
        params == [k \in keep |-> d[k]]
    IN  IF DOMAIN params = B02KInfo THEN Return(params) ELSE Raise("TypeError")

\* the f-string without the secret
canonical_without_secret(b02kinfo, secret) ==
    b02kinfo[<<"B02K_VERS">>] \o <<"&">> \o
    b02kinfo[<<"B02K_TIMESTMP">>] \o <<"&">> \o
    b02kinfo[<<"B02K_IDNBR">>] \o <<"&">> \o
    b02kinfo[<<"B02K_STAMP">>] \o <<"&">> \o
    b02kinfo[<<"B02K_CUSTNAME">>] \o <<"&">> \o
    b02kinfo[<<"B02K_KEYVERS">>] \o <<"&">> \o
    b02kinfo[<<"B02K_ALG">>] \o <<"&">> \o
    b02kinfo[<<"B02K_CUSTID">>] \o <<"&">> \o
    b02kinfo[<<"B02K_CUSTTYPE">>] \o <<"&">>

\* the f-string with the "&" after B02K_VERS left out
canonical_unseparated(b02kinfo, secret) ==
    b02kinfo[<<"B02K_VERS">>] \o
    b02kinfo[<<"B02K_TIMESTMP">>] \o <<"&">> \o
    b02kinfo[<<"B02K_IDNBR">>] \o <<"&">> \o
    b02kinfo[<<"B02K_STAMP">>] \o <<"&">> \o
    b02kinfo[<<"B02K_CUSTNAME">>] \o <<"&">> \o
    b02kinfo[<<"B02K_KEYVERS">>] \o <<"&">> \o
    b02kinfo[<<"B02K_ALG">>] \o <<"&">> \o
    b02kinfo[<<"B02K_CUSTID">>] \o <<"&">> \o
    b02kinfo[<<"B02K_CUSTTYPE">>] \o <<"&">> \o
    secret \o <<"&">>

\* The f-string of calculate_signature: every attribute in the declared
\* order, then the secret, each followed by "&".
canonical(b02kinfo, secret) ==
    b02kinfo[<<"B02K_VERS">>] \o <<"&">> \o
    b02kinfo[<<"B02K_TIMESTMP">>] \o <<"&">> \o
    b02kinfo[<<"B02K_IDNBR">>] \o <<"&">> \o
    b02kinfo[<<"B02K_STAMP">>] \o <<"&">> \o
    b02kinfo[<<"B02K_CUSTNAME">>] \o <<"&">> \o
    b02kinfo[<<"B02K_KEYVERS">>] \o <<"&">> \o
    b02kinfo[<<"B02K_ALG">>] \o <<"&">> \o
    b02kinfo[<<"B02K_CUSTID">>] \o <<"&">> \o
    b02kinfo[<<"B02K_CUSTTYPE">>] \o <<"&">> \o
    secret \o <<"&">>

calculate_signature(b02kinfo, secret) == upper(hexdigest(canonical(b02kinfo, secret)))

\* urllib.parse.unquote of one token, after replace('+', ' ')
Unquote(t) ==
    CASE t = "+" -> " " [] t = "%20" -> " " [] t = "%26" -> "&" [] t = "%3D" -> "="
      [] OTHER -> t

unquote(s) == [i \in 1..Len(s) |-> Unquote(s[i])]

RECURSIVE qsl_fields(_, _)
qsl_fields(query_args, keep_blank_values) ==
    IF Len(query_args) = 0 THEN <<>>
    ELSE LET name_value == Head(query_args)
             nv == SplitOnce(name_value, "=")
             rest == qsl_fields(Tail(query_args), keep_blank_values)
         IN  IF Len(name_value) = 0 THEN rest
             ELSE IF Len(nv) # 2
                  THEN IF keep_blank_values
                       THEN << <<unquote(nv[1]), <<>> >> >> \o rest
                       ELSE rest
             ELSE IF Len(nv[2]) > 0 \/ keep_blank_values
                  THEN << <<unquote(nv[1]), unquote(nv[2])>> >> \o rest
             ELSE rest

\* urllib.parse.parse_qsl(qs, keep_blank_values), separator "&", not strict
parse_qsl(qs, keep_blank_values) ==
    qsl_fields(IF Len(qs) = 0 THEN <<>> ELSE Split(qs, "&"), keep_blank_values)

RECURSIVE ValuesOf(_, _)
ValuesOf(pairs, name) ==
    IF Len(pairs) = 0 THEN <<>>
    ELSE (IF Head(pairs)[1] = name THEN <<Head(pairs)[2]>> ELSE <<>>)
         \o ValuesOf(Tail(pairs), name)

\* urllib.parse.parse_qs(qs): every name with the list of its values
parse_qs(qs) ==
    LET pairs == parse_qsl(qs, FALSE)
    IN  [name \in {pairs[i][1] : i \in 1..Len(pairs)} |-> ValuesOf(pairs, name)]

\* get_qs_dict without the length test: the last value of a repeated key wins
get_qs_dict_collapsing(q) ==
    LET parsed == parse_qs(q)
    IN  Return([k \in DOMAIN parsed |-> parsed[k][Len(parsed[k])]])

get_qs_dict(q) ==
    LET parsed == parse_qs(q)
    IN  IF \E k \in DOMAIN parsed : Len(parsed[k]) # 1
        THEN Raise("ValueError")
        ELSE Return([k \in DOMAIN parsed |-> parsed[k][1]])

\* format_names splitting on every space: split(' ')
format_names_split_all(fullname) == Split(Title(fullname), " ")

format_names(fullname) == SplitOnce(Title(fullname), " ")

build_success_hash(first, last, secret) ==
    hexdigest(<<"firstname", "=">> \o first \o <<"&", "lastname", "=">> \o last
              \o <<"#">> \o secret)

\* urllib.parse.quote_plus of one character
QuotePlus(c) ==
    CASE c = " " -> "+" [] c = "&" -> "%26" [] c = "=" -> "%3D" [] OTHER -> c

quote_plus(s) == [i \in 1..Len(s) |-> QuotePlus(s[i])]

RECURSIVE urlencode(_)
\* urllib.parse.urlencode of a list of (key, value) in insertion order
urlencode(items) ==
    IF Len(items) = 0 THEN <<>>
    ELSE quote_plus(Head(items)[1]) \o <<"=">> \o quote_plus(Head(items)[2])
         \o (IF Len(items) = 1 THEN <<>> ELSE <<"&">> \o urlencode(Tail(items)))

\* build_success_url formatting the values into the query without urlencode
build_success_url_unencoded(b02kinfo, secret) ==
    LET names == format_names(b02kinfo[<<"B02K_CUSTNAME">>])
    IN  IF Len(names) # 2 THEN Raise("ValueError")
        ELSE Return(<<"?", "firstname", "=">> \o names[1]
                    \o <<"&", "lastname", "=">> \o names[2]
                    \o <<"&", "hash", "=">>
                    \o build_success_hash(names[1], names[2], secret))

\* "first, last = format_names(...)" raises ValueError unless the list has
\* exactly two elements.
build_success_url(b02kinfo, secret) ==
    LET names == format_names(b02kinfo[<<"B02K_CUSTNAME">>])
    IN  IF Len(names) # 2 THEN Raise("ValueError")
        ELSE LET first == names[1]
                 last == names[2]
                 signature == build_success_hash(first, last, secret)
                 querystring == urlencode(<< <<<<"firstname">>, first>>,
                                             <<<<"lastname">>, last>>,
                                             <<<<"hash">>, signature>> >>)
             IN  Return(<<"?">> \o querystring)

\* urlparse(url).query: the text after the first "?" and before the first
\* "#" that follows.
urlparse_query(u) ==
    LET nofrag == SplitOnce(u, "#")[1]
        parts == SplitOnce(nofrag, "?")
    IN  IF Len(parts) = 2 THEN parts[2] ELSE <<>>

\* get_redirect_url with the test of the signature negated
get_redirect_url_negated(u, insecret, outsecret, errurl) ==
    LET qs == get_qs_dict(urlparse_query(u))
    IN  IF qs.kind = "raise" THEN qs
        ELSE LET b02kinfo == declare_info(qs.val)
             IN  IF b02kinfo.kind = "raise" THEN b02kinfo
                 ELSE LET signature == calculate_signature(b02kinfo.val, insecret)
                      IN  IF B02K_MAC \notin DOMAIN qs.val THEN Raise("KeyError")
                          ELSE IF signature # qs.val[B02K_MAC]
                               THEN build_success_url(b02kinfo.val, outsecret)
                               ELSE Return(errurl)

\* get_redirect_url catching every exception and answering error_url
get_redirect_url_catching(u, insecret, outsecret, errurl) ==
    LET qs == get_qs_dict(urlparse_query(u))
    IN  IF qs.kind = "raise" THEN Return(errurl)
        ELSE LET b02kinfo == declare_info(qs.val)
             IN  IF b02kinfo.kind = "raise" THEN Return(errurl)
                 ELSE LET signature == calculate_signature(b02kinfo.val, insecret)
                      IN  IF B02K_MAC \notin DOMAIN qs.val THEN Return(errurl)
                          ELSE IF signature = qs.val[B02K_MAC]
                               THEN build_success_url(b02kinfo.val, outsecret)
                               ELSE Return(errurl)

get_redirect_url(u, insecret, outsecret, errurl) ==
    LET qs == get_qs_dict(urlparse_query(u))
    IN  IF qs.kind = "raise" THEN qs
        ELSE LET b02kinfo == declare_info(qs.val)
             IN  IF b02kinfo.kind = "raise" THEN b02kinfo
                 ELSE LET signature == calculate_signature(b02kinfo.val, insecret)
                      IN  IF B02K_MAC \notin DOMAIN qs.val THEN Raise("KeyError")
                          ELSE IF signature = qs.val[B02K_MAC]
                               THEN build_success_url(b02kinfo.val, outsecret)
                               ELSE Return(errurl)

(***************************************************************************)
(* Callback URLs as the bank's redirect delivers them (the shape of        *)
(* VALID_URL and INVALID_URL of the tests): the nine fields in protocol    *)
(* order, then B02K_MAC, each value percent-encoded.  A URL may be         *)
(* malformed: a key may be absent, repeated, or carry an empty value.      *)
(***************************************************************************)
MaxDefects == 1

Secrets == {<<"j">>, <<"k">>}

CustNames == {<<"A", "B", " ", "B", "A">>, <<"A", "B">>, <<"a", " ", "b", " ", "a">>}

INVALID_SIGNATURE == <<"INVALID_SIGNATURE">>

ERROR_URL == <<"/error/">>

Fixture(custname) ==
    [k \in B02KInfo |->
        CASE k = <<"B02K_VERS">> -> <<"0003">>
          [] k = <<"B02K_TIMESTMP">> -> <<"50020181017141433899056">>
          [] k = <<"B02K_IDNBR">> -> <<"2512408990">>
          [] k = <<"B02K_STAMP">> -> <<"20010125140015123456">>
          [] k = <<"B02K_CUSTNAME">> -> custname
          [] k = <<"B02K_KEYVERS">> -> <<"0001">>
          [] k = <<"B02K_ALG">> -> <<"03">>
          [] k = <<"B02K_CUSTID">> -> <<"9984">>
          [] k = <<"B02K_CUSTTYPE">> -> <<"02">>]

\* percent-encoding of a value inside the callback URL
PercentEncode(c) ==
    CASE c = " " -> "%20" [] c = "&" -> "%26" [] c = "=" -> "%3D" [] OTHER -> c

Encoded(v) == [i \in 1..Len(v) |-> PercentEncode(v[i])]

UrlKeys == B02K_KEYS \o <<B02K_MAC>>

DefectKinds == {"absent", "twice", "blank", "mixed"}

\* what the URL carries for every key: "once" but for at most MaxDefects
\* of them
Shapes ==
    UNION { { [k \in B02KInfo \cup {B02K_MAC} |-> IF k \in D THEN f[k] ELSE "once"] :
                f \in [D -> DefectKinds] } :
            D \in {S \in SUBSET (B02KInfo \cup {B02K_MAC}) : Cardinality(S) <= MaxDefects} }

Segments(k, v, shape) ==
    LET pair == k \o <<"=">> \o Encoded(v)
    IN  CASE shape = "once" -> <<pair>>
          [] shape = "absent" -> <<>>
          [] shape = "twice" -> <<pair, pair>>
          [] shape = "blank" -> <<k \o <<"=">> >>
          [] shape = "mixed" -> <<pair, k \o <<"=">> >>

RECURSIVE AllSegments(_, _, _)
AllSegments(keys, values, shape) ==
    IF Len(keys) = 0 THEN <<>>
    ELSE Segments(Head(keys), values[Head(keys)], shape[Head(keys)])
         \o AllSegments(Tail(keys), values, shape)

CallbackUrl(fields, mac, shape, extra) ==
    <<"http://someserver.com/", "?">>
    \o Join(AllSegments(UrlKeys, [k \in B02KInfo \cup {B02K_MAC} |->
                                     IF k = B02K_MAC THEN mac ELSE fields[k]], shape)
            \o extra, "&")

ExtraSegments == {<<>>, << <<"Invalid-Key", "=", "Invalid-Value">> >>}

Init ==
    /\ op = "none"
    /\ \E custname \in CustNames, signsecret \in Secrets \cup {<<>>},
          shape \in Shapes, extra \in ExtraSegments :
          LET fields == Fixture(custname)
              mac == IF signsecret = <<>> THEN INVALID_SIGNATURE
                     ELSE calculate_signature(fields, signsecret)
          IN  url = CallbackUrl(fields, mac, shape, extra)
    /\ inputsecret \in Secrets
    /\ outputsecret \in Secrets
    /\ error_url = ERROR_URL
    /\ query = <<>>
    /\ info = <<>>
    /\ result = NoResult

GetRedirectUrl ==
    /\ op = "none"
    /\ op' = "get_redirect_url"
    /\ result' = get_redirect_url(url, inputsecret, outputsecret, error_url)
    /\ UNCHANGED <<url, query, info, inputsecret, outputsecret, error_url>>

Next == GetRedirectUrl

Spec == Init /\ [][Next]_vars

(***************************************************************************)
(* get_qs_dict applied to arbitrary short query strings.                   *)
(***************************************************************************)
MaxQueryLen == 7

QueryChars == {"n", "p", "=", "&"}

Strings(chars, n) == UNION {[1..m -> chars] : m \in 0..n}

InitQs ==
    /\ op = "none"
    /\ query \in Strings(QueryChars, MaxQueryLen)
    /\ url = <<>>
    /\ info = <<>>
    /\ inputsecret = <<>>
    /\ outputsecret = <<>>
    /\ error_url = <<>>
    /\ result = NoResult

GetQsDict ==
    /\ op = "none"
    /\ op' = "get_qs_dict"
    /\ result' = get_qs_dict(query)
    /\ UNCHANGED <<url, query, info, inputsecret, outputsecret, error_url>>

NextQs == GetQsDict

SpecQs == InitQs /\ [][NextQs]_vars

(***************************************************************************)
(* format_names and build_success_url applied to arbitrary short customer  *)
(* names, and get_redirect_url applied to the correctly signed callback    *)
(* URL that carries the name.                                              *)
(***************************************************************************)
MaxNameLen == 5

NameChars == {"a", "B", " ", "&"}

InitNames ==
    /\ op = "none"
    /\ \E fullname \in Strings(NameChars, MaxNameLen) : info = Fixture(fullname)
    /\ inputsecret \in Secrets
    /\ outputsecret \in Secrets
    /\ url = CallbackUrl(info, calculate_signature(info, inputsecret),
                         [k \in B02KInfo \cup {B02K_MAC} |-> "once"], <<>>)
    /\ query = <<>>
    /\ error_url = ERROR_URL
    /\ result = NoResult

FormatNames ==
    /\ op = "none"
    /\ op' = "format_names"
    /\ result' = Return(format_names(info[<<"B02K_CUSTNAME">>]))
    /\ UNCHANGED <<url, query, info, inputsecret, outputsecret, error_url>>

BuildSuccessUrl ==
    /\ op = "none"
    /\ op' = "build_success_url"
    /\ result' = build_success_url(info, outputsecret)
    /\ UNCHANGED <<url, query, info, inputsecret, outputsecret, error_url>>

NextNames == FormatNames \/ BuildSuccessUrl \/ GetRedirectUrl

SpecNames == InitNames /\ [][NextNames]_vars

(***************************************************************************)
(* declare_info and calculate_signature applied to decoded queries whose   *)
(* first two fields are arbitrary short strings that may hold "&".         *)
(***************************************************************************)
MaxValueLen == 2

ValueChars == {"a", "&"}

Values == Strings(ValueChars, MaxValueLen) \ {<<>>}

OtherKeys == {B02K_MAC, <<"Invalid-Key">>}

Put(d, k, v) == [x \in DOMAIN d \cup {k} |-> IF x = k THEN v ELSE d[x]]

Drop(d, k) == [x \in DOMAIN d \ {k} |-> d[x]]

\* B02KDICT of the tests with two of its values replaced
B02KDICT(vers, timestmp) ==
    Put(Put(Fixture(<<"A", "B", " ", "B", "A">>), <<"B02K_VERS">>, vers),
        <<"B02K_TIMESTMP">>, timestmp)

InitSig ==
    /\ op = "none"
    /\ \E vers \in Values, timestmp \in Values, others \in SUBSET OtherKeys :
          info = [k \in B02KInfo \cup others |->
                    IF k \in B02KInfo THEN B02KDICT(vers, timestmp)[k]
                    ELSE INVALID_SIGNATURE]
    /\ inputsecret \in Secrets
    /\ outputsecret = <<>>
    /\ url = <<>>
    /\ query = <<>>
    /\ error_url = <<>>
    /\ result = NoResult

DeclareInfo ==
    /\ op = "none"
    /\ op' = "declare_info"
    /\ result' = declare_info(info)
    /\ UNCHANGED <<url, query, info, inputsecret, outputsecret, error_url>>

CalculateSignature ==
    /\ op = "declare_info"
    /\ result.kind = "return"
    /\ op' = "calculate_signature"
    /\ result' = Return(calculate_signature(result.val, inputsecret))
    /\ UNCHANGED <<url, query, info, inputsecret, outputsecret, error_url>>

NextSig == DeclareInfo \/ CalculateSignature

SpecSig == InitSig /\ [][NextSig]_vars

(***************************************************************************)
(* The text of a query read pair by pair: every "name=value" between "&",  *)
(* in order, with its decoded value, empty values included.                *)
(***************************************************************************)
Pairs(q) == parse_qsl(q, TRUE)

KeysOf(ps) == {ps[i][1] : i \in 1..Len(ps)}

NonEmpty(v) == Len(v) > 0

NonEmptyValues(ps, k) == SelectSeq(ValuesOf(ps, k), NonEmpty)

ProtocolKeys == B02KInfo \cup {B02K_MAC}

\* the nine fields and B02K_MAC occur exactly once each
EachOnce(ps) == \A k \in ProtocolKeys : Len(ValuesOf(ps, k)) = 1

EachNonEmpty(ps) == \A k \in ProtocolKeys : Len(NonEmptyValues(ps, k)) = 1

CarriedFields(ps) == [k \in B02KInfo |-> ValuesOf(ps, k)[1]]

MacMatches(ps) ==
    ValuesOf(ps, B02K_MAC)[1] = calculate_signature(CarriedFields(ps), inputsecret)

Redirected == op = "get_redirect_url"

ReturnedErrorUrl == result.kind = "return" /\ result.val = error_url

(***************************************************************************)
(* C1: a URL that carries each of the nine fields once and B02K_MAC equal  *)
(* to calculate_signature(fields, inputsecret) is verified:                *)
(* get_redirect_url returns build_success_url(fields, outputsecret), and   *)
(* neither raises nor returns error_url.                                   *)
(***************************************************************************)
C1_RoundTrip ==
    Redirected =>
        LET ps == Pairs(urlparse_query(url))
        IN  (EachOnce(ps) /\ MacMatches(ps)) =>
                /\ result.kind = "return"
                /\ result.val # error_url
                /\ result = build_success_url(CarriedFields(ps), outputsecret)

Malformed(ps) ==
    \/ \E k \in KeysOf(ps) : Len(ValuesOf(ps, k)) >= 2
    \/ \E k \in ProtocolKeys : Len(ValuesOf(ps, k)) = 0

\* the same, counting only the pairs whose value is not empty
MalformedNonEmpty(ps) ==
    \/ \E k \in KeysOf(ps) : Len(NonEmptyValues(ps, k)) >= 2
    \/ \E k \in ProtocolKeys : Len(NonEmptyValues(ps, k)) = 0

CustName == info[<<"B02K_CUSTNAME">>]

HasSpace(s) == \E i \in 1..Len(s) : s[i] = " "

\* the query string "?firstname=..&lastname=..&hash=.." written out
SuccessQuery(first, last, hash) ==
    <<"?", "firstname", "=">> \o quote_plus(first)
    \o <<"&", "lastname", "=">> \o quote_plus(last)
    \o <<"&", "hash", "=">> \o hash

(***************************************************************************)
(* C5: for every customer name that holds no space, build_success_url      *)
(* returns a success query string with firstname the title-cased name and  *)
(* lastname empty, and does not raise.                                     *)
(***************************************************************************)
C5_NoSpaceName ==
    (op = "build_success_url" /\ Len(CustName) > 0 /\ ~HasSpace(CustName)) =>
        /\ result.kind = "return"
        /\ result.val = SuccessQuery(Title(CustName), <<>>,
                            build_success_hash(Title(CustName), <<>>, outputsecret))

(***************************************************************************)
(* C8: what build_success_url returns is "?" followed by the URL-encoded   *)
(* query with exactly the keys firstname, lastname, hash in that order,    *)
(* firstname and lastname being the pair format_names derives from the     *)
(* customer name and hash being build_success_hash(first, last, secret)    *)
(* under the output secret, also when get_redirect_url calls it for a      *)
(* verified URL.                                                           *)
(***************************************************************************)
C8_SuccessUrl ==
    (op \in {"build_success_url", "get_redirect_url"} /\ result.kind = "return") =>
        LET names == format_names(CustName)
            fields == Split(Tail(result.val), "&")
        IN  /\ Len(names) = 2
            /\ result.val = SuccessQuery(names[1], names[2],
                                build_success_hash(names[1], names[2], outputsecret))
            /\ Head(result.val) = "?"
            /\ Len(fields) = 3
            /\ fields[1][1] = "firstname"
            /\ fields[2][1] = "lastname"
            /\ fields[3][1] = "hash"

C8_Witness ==
    /\ op = "get_redirect_url"
    /\ result.kind = "return"
    /\ inputsecret # outputsecret
    /\ \E i \in 1..Len(CustName) : CustName[i] = "&"
    /\ \E i \in 1..Len(result.val) : result.val[i] = "+"

(***************************************************************************)
(* C9: for every full name with at least one space, format_names returns   *)
(* a list of exactly two title-cased strings: the text before the first    *)
(* space, and all the text after it (further spaces kept), so that         *)
(* first + " " + last is the title-cased full name.                        *)
(***************************************************************************)
C9_FormatNames ==
    (op = "format_names" /\ HasSpace(CustName)) =>
        /\ result.kind = "return"
        /\ Len(result.val) = 2
        /\ ~HasSpace(result.val[1])
        /\ result.val[1] \o <<" ">> \o result.val[2] = Title(CustName)
        /\ Title(result.val[1]) = result.val[1]
        /\ Title(result.val[2]) = result.val[2]

C9_Witness ==
    /\ op = "format_names"
    /\ Len(result.val) = 2
    /\ HasSpace(result.val[2])
    /\ result.val[1] # SubSeq(CustName, 1, Len(result.val[1]))

(***************************************************************************)
(* Field records and signatures                                            *)
(***************************************************************************)
HasAmp(s) == \E i \in 1..Len(s) : s[i] = "&"

SECRET == <<"secret">>

\* the ten inputs of calculate_signature as one tuple
Inputs(b02kinfo, secret) == Put(b02kinfo, SECRET, secret)

CanonicalOf(t) == canonical(Drop(t, SECRET), t[SECRET])

SignatureOf(t) == calculate_signature(Drop(t, SECRET), t[SECRET])

\* every tuple of inputs that InitSig draws with its two free values in values
Signable(values) ==
    {Inputs(B02KDICT(vers, timestmp), secret) :
        vers \in values, timestmp \in values, secret \in Secrets}

Signed == Inputs([k \in B02KInfo |-> info[k]], inputsecret)

(***************************************************************************)
(* C6: for every mapping that holds all nine protocol keys, declare_info   *)
(* returns the record of exactly the mapping's values for those keys, and  *)
(* adding, removing or changing any other key (B02K_MAC included) leaves   *)
(* the record, and the signature calculated from it, unchanged.            *)
(***************************************************************************)
C6_DeclareInfo ==
    (op = "declare_info" /\ B02KInfo \subseteq DOMAIN info) =>
        /\ result.kind = "return"
        /\ DOMAIN result.val = B02KInfo
        /\ \A k \in B02KInfo : result.val[k] = info[k]
        /\ \A o \in OtherKeys :
              /\ declare_info(Drop(info, o)) = result
              /\ \A v \in Values :
                    /\ declare_info(Put(info, o, v)) = result
                    /\ declare_info(Put(info, o, v)).kind = "return"
                    /\ calculate_signature(declare_info(Put(info, o, v)).val, inputsecret)
                         = calculate_signature(result.val, inputsecret)

C6_Witness ==
    /\ op = "declare_info"
    /\ OtherKeys \subseteq DOMAIN info
    /\ result.kind = "return"
    /\ DOMAIN result.val = B02KInfo

(***************************************************************************)
(* C7: changing any single one of the nine field values, or the secret,    *)
(* with the other nine inputs fixed, changes the canonical signing string  *)
(* and hence, the digest being collision-free, the signature.              *)
(***************************************************************************)
C7_SingleChange ==
    op = "calculate_signature" =>
        LET signed == Signed
            raw == CanonicalOf(signed)
        IN  \A p \in DOMAIN signed : \A v \in Values \cup Secrets \cup {<<>>} :
                v # signed[p] =>
                    /\ CanonicalOf([signed EXCEPT ![p] = v]) # raw
                    /\ SignatureOf([signed EXCEPT ![p] = v]) # result.val

C7_Witness ==
    /\ op = "calculate_signature"
    /\ result.val = SignatureOf(Signed)
    /\ HasAmp(Signed[<<"B02K_VERS">>])

(***************************************************************************)
(* C10, as claimed: any two distinct tuples (nine field values, secret),   *)
(* whose values may hold "&", have distinct canonical signing strings.     *)
(***************************************************************************)
C10_InjectiveAsClaimed ==
    op = "calculate_signature" =>
        LET signed == Signed
            raw == CanonicalOf(signed)
        IN  \A t \in Signable(Values) : t # signed => CanonicalOf(t) # raw

(***************************************************************************)
(* C10, amended: any two distinct tuples (nine field values, secret) whose *)
(* values hold no "&" have distinct canonical signing strings, and so      *)
(* distinct signatures: splitting the canonical string at "&" gives back   *)
(* the ten values in order.                                                *)
(***************************************************************************)
C10_Injective ==
    op = "calculate_signature" =>
        LET signed == Signed
            raw == CanonicalOf(signed)
        IN  (\A p \in DOMAIN signed : ~HasAmp(signed[p])) =>
                /\ Split(raw, "&") =
                      [i \in 1..11 |-> IF i <= 9 THEN signed[B02K_KEYS[i]]
                                       ELSE IF i = 10 THEN signed[SECRET] ELSE <<>>]
                /\ \A t \in Signable({v \in Values : ~HasAmp(v)}) :
                      t # signed =>
                          /\ CanonicalOf(t) # raw
                          /\ SignatureOf(t) # result.val

C10_Witness ==
    /\ op = "calculate_signature"
    /\ \A p \in DOMAIN Signed : ~HasAmp(Signed[p])
    /\ Len(Signed[<<"B02K_VERS">>]) = 2
    /\ result.val = SignatureOf(Signed)

=============================================================================
